---- MODULE Spec2Model ----
(***************************************************************************)
(* Model of GCodeLoaderLayer.parse (src/public/GCodeLoaderLayer.js): the   *)
(* line-by-line G-code interpreter that tracks the machine state, the      *)
(* active tool and the list of layers with their three vertex lists.       *)
(*                                                                         *)
(* Text is modelled as sequences of one-character strings, so that the     *)
(* comment stripping, the split on spaces, the case normalisation, the     *)
(* "T0"/"T1" substring tests and parseFloat are computed, not assumed.     *)
(* A JavaScript number is <<n>> (an integer n) or <<>> (NaN); a JavaScript *)
(* object is a function whose DOMAIN is the set of its own properties.     *)
(***************************************************************************)
EXTENDS Integers, Sequences, FiniteSets, TLC

\* Number of lines of one input text (lines.length, line 115).
MaxLines == 4

(***************************************************************************)
(* JavaScript numbers                                                      *)
(***************************************************************************)
NaN == <<>>

Num(n) == <<n>>

IsNaN(a) == a = NaN

\* a + b
Add(a, b) == IF IsNaN(a) \/ IsNaN(b) THEN NaN ELSE Num(a[1] + b[1])

\* a - b
Sub(a, b) == IF IsNaN(a) \/ IsNaN(b) THEN NaN ELSE Num(a[1] - b[1])

\* a > 0
Positive(a) == ~IsNaN(a) /\ a[1] > 0

\* a != b
NotEq(a, b) == IsNaN(a) \/ IsNaN(b) \/ a[1] # b[1]

(***************************************************************************)
(* JavaScript objects                                                      *)
(***************************************************************************)
\* obj[k], where a missing property is falsy
Truthy(obj, k) == k \in DOMAIN obj /\ obj[k] = TRUE

\* obj[k] = v
SetField(obj, k, v) == [f \in DOMAIN obj \cup {k} |-> IF f = k THEN v ELSE obj[f]]

(***************************************************************************)
(* Text                                                                    *)
(***************************************************************************)
Digits == <<"0", "1", "2", "3", "4", "5", "6", "7", "8", "9">>

IsDigit(c) == \E d \in 1..10 : Digits[d] = c

DigitVal(c) == (CHOOSE d \in 1..10 : Digits[d] = c) - 1

UpperLetters == <<"A", "E", "F", "G", "M", "T", "X", "Y", "Z">>

LowerLetters == <<"a", "e", "f", "g", "m", "t", "x", "y", "z">>

\* String.prototype.toUpperCase, one character
ToUpperChar(c) ==
  IF \E k \in 1..Len(LowerLetters) : LowerLetters[k] = c
    THEN UpperLetters[CHOOSE k \in 1..Len(LowerLetters) : LowerLetters[k] = c]
    ELSE c

\* String.prototype.toLowerCase, one character
ToLowerChar(c) ==
  IF \E k \in 1..Len(UpperLetters) : UpperLetters[k] = c
    THEN LowerLetters[CHOOSE k \in 1..Len(UpperLetters) : UpperLetters[k] = c]
    ELSE c

toUpperCase(s) == [k \in 1..Len(s) |-> ToUpperChar(s[k])]

\* s.includes(sub)
includes(s, sub) ==
  \E k \in 0..(Len(s) - Len(sub)) : SubSeq(s, k + 1, k + Len(sub)) = sub

\* replace( /;.+/g, '' ) on one line: a ';' followed by at least one
\* character is removed with everything after it.
StripComment(s) ==
  IF \E k \in 1..(Len(s) - 1) : s[k] = ";"
    THEN SubSeq(s, 1, (CHOOSE k \in 1..(Len(s) - 1) :
                         s[k] = ";" /\ \A j \in 1..(k - 1) : s[j] # ";") - 1)
    ELSE s

\* s.split(" "): the pieces between single spaces, empty pieces kept
RECURSIVE split(_)
split(s) ==
  IF \E k \in 1..Len(s) : s[k] = " "
    THEN LET k == CHOOSE k \in 1..Len(s) : s[k] = " " /\ \A j \in 1..(k - 1) : s[j] # " "
         IN  <<SubSeq(s, 1, k - 1)>> \o split(SubSeq(s, k + 1, Len(s)))
    ELSE <<s>>

\* value of the leading digits of s, read left to right
RECURSIVE DigitsValue(_, _)
DigitsValue(s, acc) ==
  IF s # <<>> /\ IsDigit(s[1])
    THEN DigitsValue(Tail(s), 10 * acc + DigitVal(s[1]))
    ELSE acc

\* parseFloat that reads a text without numeric prefix as 0
parseFloat_ZeroForMalformed(s) ==
  LET neg == s # <<>> /\ s[1] = "-"
      body == IF neg THEN Tail(s) ELSE s
  IN  Num((IF neg THEN -1 ELSE 1) * DigitsValue(body, 0))

\* parseFloat on a text of sign, digits and letters: the longest numeric
\* prefix, NaN when there is none.
parseFloat(s) ==
  LET neg == s # <<>> /\ s[1] = "-"
      body == IF neg THEN Tail(s) ELSE s
  IN  IF body = <<>> \/ ~IsDigit(body[1])
        THEN NaN
        ELSE Num((IF neg THEN -1 ELSE 1) * DigitsValue(body, 0))

\* tokens.splice(1).forEach(...): the args object of a line
RECURSIVE ReadArgs(_, _)
ReadArgs(tokens, acc) ==
  IF tokens = <<>>
    THEN acc
    ELSE LET token == Head(tokens)
         IN  IF token # <<>>
               THEN ReadArgs(Tail(tokens),
                             SetField(acc, ToLowerChar(token[1]), parseFloat(Tail(token))))
               ELSE ReadArgs(Tail(tokens), acc)

\* One line of the input after comment stripping, decomposed as the loop
\* body does: the tool markers, the command code and the arguments.
Tokenize(raw) ==
  LET l == StripComment(raw)
      tokens == split(l)
  IN  [T1 |-> includes(l, <<"T", "1">>),
       T0 |-> includes(l, <<"T", "0">>),
       cmd |-> toUpperCase(tokens[1]),
       args |-> ReadArgs(Tail(tokens), <<>>)]

(***************************************************************************)
(* Input lines                                                             *)
(***************************************************************************)
\* " ".join(tokens)
RECURSIVE Join(_)
Join(tokens) ==
  IF Len(tokens) = 1
    THEN tokens[1]
    ELSE tokens[1] \o <<" ">> \o Join(Tail(tokens))

G0 == <<"G", "0">>
G1 == <<"G", "1">>
G2 == <<"G", "2">>
G3 == <<"G", "3">>
G90 == <<"G", "9", "0">>
G91 == <<"G", "9", "1">>
G92 == <<"G", "9", "2">>

\* The lines an input text is drawn from: moves with every axis present or
\* absent, a lower-case command, a negative and a malformed value, a doubled
\* space, the mode and set-position commands, an arc, a comment-only line
\* and the tool markers, alone on their line (a command code the code does
\* not know).
MoveLines ==
  { Join(<<G1, <<"X", "1">>>>),
    Join(<<<<"g", "0">>, <<"x", "2">>>>),
    Join(<<G1, <<"Z", "1">>, <<"E", "2">>>>),
    Join(<<G1, <<"E", "1">>>>),
    Join(<<G1, <<"X", "2">>, <<"E", "-", "1">>>>),
    Join(<<G1, <<>>, <<"F", "3">>>>),
    Join(<<G1, <<"X", "1">>, <<"Y", "1">>, <<"Z", "1">>, <<"E", "1">>, <<"F", "1">>>>),
    Join(<<G1, <<"X", "a">>, <<"E", "3">>>>),
    Join(<<G1, <<"Z", "0">>, <<"E", "9">>>>) }

OtherLines ==
  { G90,
    G91,
    Join(<<G92, <<"E", "-", "1">>>>),
    Join(<<G92, <<"X", "3">>, <<"Y", "3">>, <<"Z", "2">>, <<"F", "3">>>>),
    Join(<<G2, <<"X", "1">>, <<"E", "1">>>>),
    <<";", "T", "1">>,
    <<"T", "1">>,
    <<"T", "0">>,
    Join(<<<<"T", "0">>, <<"T", "1">>>>) }

Lines == MoveLines \cup OtherLines

\* The decomposition of every line of Lines, computed once.
Tokens == [raw \in Lines |-> Tokenize(raw)]

(***************************************************************************)
(* State                                                                   *)
(***************************************************************************)
VARIABLES
  tcode,         \* module-level active tool (line 11)
  state,         \* machine state object (lines 57-65)
  layers,        \* list of layers (line 66)
  currentLayer,  \* index in layers of the current layer, 0 for undefined (line 68)
  i,             \* number of lines read in this pass (line 115)
  line,          \* the line read last, raw (line 116)
  cmd,           \* its command code (line 129)
  args,          \* its arguments (line 132)
  splitLayer,    \* this.splitLayer (line 26)
  object,        \* the Group parse returns (lines 206-207)
  history,       \* history: G0/G1 lines read in this pass, end point of the
                 \* segment emitted last, G92 with X, Y or Z read since
  before         \* history: tcode, state, layers, currentLayer, history
                 \* before the line read last

vars == <<tcode, state, layers, currentLayer, i, line, cmd, args, splitLayer,
          object, history, before>>

InitialState ==
  [x |-> Num(0), y |-> Num(0), z |-> Num(0), e |-> Num(0), f |-> Num(0),
   extruding |-> FALSE, relative |-> FALSE]

\* The history at the start of a pass: no move, the origin, no G92
NoHistory == [moves |-> 0, lastEnd |-> <<Num(0), Num(0), Num(0)>>, shifted |-> FALSE]

Snapshot == [tcode |-> tcode, state |-> state, layers |-> layers,
             currentLayer |-> currentLayer, history |-> history]

\* No Group yet: parse has not reached line 206
NoObject == [name |-> "", children |-> <<>>]

\* parse has built its result
Built == object.name = "gcode"

(***************************************************************************)
(* Helpers of parse                                                        *)
(***************************************************************************)
\* newLayer(line): the layer list after the push
newLayer(ls, p) ==
  Append(ls, [vertex |-> <<>>, pathVertex |-> <<>>, supportVertex |-> <<>>, z |-> p.z])

\* SegmentList with the two tools exchanged
SegmentList_ToolsSwapped(st, tc) ==
  IF Truthy(st, "extruding") /\ tc = 0 THEN "vertex"
  ELSE IF Truthy(st, "extruding") /\ tc = 1 THEN "supportVertex"
  ELSE "pathVertex"

\* The vertex list addSegment pushes to
SegmentList(st, tc) ==
  IF Truthy(st, "extruding") /\ tc = 1 THEN "vertex"
  ELSE IF Truthy(st, "extruding") /\ tc = 0 THEN "supportVertex"
  ELSE "pathVertex"

\* addSegment that records no segment of length zero
addSegment_SkipsEmpty(st, ls, cl, p1, p2, tc) ==
  LET ls1 == IF cl = 0 THEN newLayer(ls, p1) ELSE ls
      cl1 == IF cl = 0 THEN Len(ls1) ELSE cl
      list == SegmentList(st, tc)
  IN  [layers |-> IF <<p1.x, p1.y, p1.z>> = <<p2.x, p2.y, p2.z>>
                    THEN ls1
                    ELSE [ls1 EXCEPT ![cl1][list] =
                            @ \o <<p1.x, p1.y, p1.z>> \o <<p2.x, p2.y, p2.z>>],
       currentLayer |-> cl1]

\* addSegment that puts the segment at the front of its list
addSegment_Prepends(st, ls, cl, p1, p2, tc) ==
  LET ls1 == IF cl = 0 THEN newLayer(ls, p1) ELSE ls
      cl1 == IF cl = 0 THEN Len(ls1) ELSE cl
      list == SegmentList(st, tc)
  IN  [layers |-> [ls1 EXCEPT ![cl1][list] =
                     <<p1.x, p1.y, p1.z>> \o <<p2.x, p2.y, p2.z>> \o @],
       currentLayer |-> cl1]

\* addSegment(p1, p2, tc) with state st: the layer list and the current layer
\* after the call
addSegment(st, ls, cl, p1, p2, tc) ==
  LET ls1 == IF cl = 0 THEN newLayer(ls, p1) ELSE ls
      cl1 == IF cl = 0 THEN Len(ls1) ELSE cl
      list == SegmentList(st, tc)
  IN  [layers |-> [ls1 EXCEPT ![cl1][list] =
                     @ \o <<p1.x, p1.y, p1.z>> \o <<p2.x, p2.y, p2.z>>],
       currentLayer |-> cl1]

\* delta(v1, v2)
delta(st, v1, v2) == IF Truthy(st, "relative") THEN v2 ELSE Sub(v2, v1)

\* absolute with the positioning mode ignored
absolute_IgnoresMode(st, v1, v2) == v2

\* absolute(v1, v2)
absolute(st, v1, v2) == IF Truthy(st, "relative") THEN Add(v1, v2) ELSE v2

\* One axis of the target of a G0/G1 command
Axis(st, a, k, offset) ==
  IF k \in DOMAIN a THEN absolute(st, st[k], Sub(a[k], Num(offset))) ELSE st[k]

\* Offset subtracted from the X argument in the tcode !== 0 branch
ToolOffset == 22

\* MoveTarget that lowers X under tool 1 also when the command has no X
MoveTarget_OffsetWithoutX(st, a, tc) ==
  [x |-> IF tc = 0 THEN Axis(st, a, "x", 0)
         ELSE Sub(Axis(st, a, "x", 0), Num(ToolOffset)),
   y |-> Axis(st, a, "y", 0),
   z |-> Axis(st, a, "z", 0),
   e |-> Axis(st, a, "e", 0),
   f |-> Axis(st, a, "f", 0)]

\* The object `line` of the G0/G1 branch
MoveTarget(st, a, tc) ==
  [x |-> Axis(st, a, "x", IF tc = 0 THEN 0 ELSE ToolOffset),
   y |-> Axis(st, a, "y", 0),
   z |-> Axis(st, a, "z", 0),
   e |-> Axis(st, a, "e", 0),
   f |-> Axis(st, a, "f", 0)]

\* ToolAfter with the two marker tests in the other order
ToolAfter_T1Last(tok, tc) == IF tok.T1 THEN 1 ELSE IF tok.T0 THEN 0 ELSE tc

\* The tool after the two marker tests of a line
ToolAfter(tok, tc) == IF tok.T0 THEN 0 ELSE IF tok.T1 THEN 1 ELSE tc

(***************************************************************************)
(* Actions                                                                 *)
(***************************************************************************)
Init ==
  /\ tcode = 0
  /\ state = InitialState
  /\ layers = <<>>
  /\ currentLayer = 0
  /\ i = 0
  /\ line = <<>>
  /\ cmd = <<>>
  /\ args = <<>>
  /\ splitLayer = TRUE
  /\ object = NoObject
  /\ history = NoHistory
  /\ before = [tcode |-> 0, state |-> InitialState, layers |-> <<>>, currentLayer |-> 0,
               history |-> NoHistory]

\* A further call of parse, after the last one has read its lines, on a
\* loader as the constructor leaves it: fresh state and layers, tcode as it
\* was left
Parse ==
  /\ i > 0
  /\ splitLayer' = TRUE
  /\ state' = InitialState
  /\ layers' = <<>>
  /\ currentLayer' = 0
  /\ i' = 0
  /\ line' = <<>>
  /\ cmd' = <<>>
  /\ args' = <<>>
  /\ object' = NoObject
  /\ history' = NoHistory
  /\ before' = [tcode |-> tcode, state |-> InitialState, layers |-> <<>>,
                currentLayer |-> 0, history |-> NoHistory]
  /\ UNCHANGED tcode

\* What every iteration of the loop does before the command is dispatched
ReadLine(raw) ==
  /\ ~Built
  /\ i < MaxLines
  /\ i' = i + 1
  /\ line' = raw
  /\ cmd' = Tokens[raw].cmd
  /\ args' = Tokens[raw].args
  /\ before' = Snapshot
  /\ tcode' = ToolAfter(Tokens[raw], tcode)
  /\ UNCHANGED <<splitLayer, object>>

\* LayerChange that holds for every extruding move
LayerChange_EveryExtrusion(ls, cl, target) == TRUE

\* LayerChange that holds only while no layer exists
LayerChange_OnlyFirst(ls, cl, target) == cl = 0

\* The test that starts a layer on an extruding move (line 167)
LayerChange(ls, cl, target) == cl = 0 \/ NotEq(target.z, ls[cl].z)

\* G0/G1
LinearMove(raw) ==
  /\ Tokens[raw].cmd \in {G0, G1}
  /\ ReadLine(raw)
  /\ LET target == MoveTarget(state, Tokens[raw].args, tcode')
         extrude == Positive(delta(state, state.e, target.e))
         st == IF extrude THEN SetField(state, "extruding", extrude) ELSE state
         fresh == extrude /\ LayerChange(layers, currentLayer, target)
         ls == IF fresh THEN newLayer(layers, target) ELSE layers
         cl == IF fresh THEN Len(ls) ELSE currentLayer
         added == addSegment(st, ls, cl, st, target, tcode')
     IN  /\ layers' = added.layers
         /\ currentLayer' = added.currentLayer
         /\ state' = target
         /\ history' = [moves |-> history.moves + 1,
                        lastEnd |-> <<target.x, target.y, target.z>>,
                        shifted |-> FALSE]

\* ArcMove that moves the machine to the arc's end point
ArcMove_MovesToEnd(raw) ==
  /\ Tokens[raw].cmd \in {G2, G3}
  /\ ReadLine(raw)
  /\ state' = MoveTarget(state, Tokens[raw].args, tcode')
  /\ UNCHANGED <<layers, currentLayer, history>>

\* G2/G3
ArcMove(raw) ==
  /\ Tokens[raw].cmd \in {G2, G3}
  /\ ReadLine(raw)
  /\ UNCHANGED <<state, layers, currentLayer, history>>

\* G90
SetAbsolute(raw) ==
  /\ Tokens[raw].cmd = G90
  /\ ReadLine(raw)
  /\ state' = SetField(state, "relative", FALSE)
  /\ UNCHANGED <<layers, currentLayer, history>>

\* G91
SetRelative(raw) ==
  /\ Tokens[raw].cmd = G91
  /\ ReadLine(raw)
  /\ state' = SetField(state, "relative", TRUE)
  /\ UNCHANGED <<layers, currentLayer, history>>

\* SetPositionTarget that also takes the feed rate from the command
SetPositionTarget_WithFeed(st, a) ==
  [k \in DOMAIN st |-> IF k \in {"x", "y", "z", "e", "f"} /\ k \in DOMAIN a
                         THEN a[k] ELSE st[k]]

\* The state after the four assignments of the G92 branch
SetPositionTarget(st, a) ==
  [k \in DOMAIN st |-> IF k \in {"x", "y", "z", "e"} /\ k \in DOMAIN a
                         THEN a[k] ELSE st[k]]

\* G92
SetPosition(raw) ==
  /\ Tokens[raw].cmd = G92
  /\ ReadLine(raw)
  /\ state' = SetPositionTarget(state, Tokens[raw].args)
  /\ history' = [history EXCEPT !.shifted =
                   @ \/ {"x", "y", "z"} \cap DOMAIN Tokens[raw].args # {}]
  /\ UNCHANGED <<layers, currentLayer>>

\* Any other command code
Unsupported(raw) ==
  /\ Tokens[raw].cmd \notin {G0, G1, G2, G3, G90, G91, G92}
  /\ ReadLine(raw)
  /\ UNCHANGED <<state, layers, currentLayer, history>>

\* addObject(vertex, material, i): the LineSegments added to the Group. The
\* position attribute holds the values of the list in their order, three
\* per point (as 32-bit floats, which are exact for the values of Lines).
addObject(vertex, material, n) ==
  [name |-> <<"layer", n>>, material |-> material, position |-> vertex]

\* The children of the Group when splitLayer is set (lines 210-215)
RECURSIVE SplitChildren(_, _)
SplitChildren(ls, n) ==
  IF n > Len(ls)
    THEN <<>>
    ELSE <<addObject(ls[n].vertex, "extruded", n - 1),
           addObject(ls[n].pathVertex, "path", n - 1),
           addObject(ls[n].supportVertex, "support", n - 1)>>
         \o SplitChildren(ls, n + 1)

\* Combined that pushes the lists of later layers first
RECURSIVE Combined_LastLayerFirst(_, _, _)
Combined_LastLayerFirst(ls, name, n) ==
  IF n > Len(ls)
    THEN <<>>
    ELSE Combined_LastLayerFirst(ls, name, n + 1) \o ls[n][name]

\* One list of every layer pushed, value by value, to a combined list
\* (lines 221-238)
RECURSIVE Combined(_, _, _)
Combined(ls, name, n) ==
  IF n > Len(ls) THEN <<>> ELSE ls[n][name] \o Combined(ls, name, n + 1)

\* The children of the Group when splitLayer is not set (lines 217-242)
FlatChildren(ls) ==
  <<addObject(Combined(ls, "vertex", 1), "extruded", Len(ls)),
    addObject(Combined(ls, "pathVertex", 1), "path", Len(ls)),
    addObject(Combined(ls, "supportVertex", 1), "support", Len(ls))>>

\* The end of parse, after the last line: the Group is built from the
\* layers, split or flattened as this.splitLayer, set by the caller, says.
\* line, cmd and args are out of scope.
Emit(sl) ==
  /\ ~Built
  /\ i > 0
  /\ splitLayer' = sl
  /\ object' = [name |-> "gcode",
                children |-> IF sl THEN SplitChildren(layers, 1) ELSE FlatChildren(layers)]
  /\ line' = <<>>
  /\ cmd' = <<>>
  /\ args' = <<>>
  /\ before' = Snapshot
  /\ UNCHANGED <<tcode, state, layers, currentLayer, i, history>>

\* The interpreter alone: the lines of a text, then the next call
Next ==
  \/ Parse
  \/ \E raw \in Lines : LinearMove(raw)
  \/ \E raw \in Lines : ArcMove(raw)
  \/ \E raw \in Lines : SetAbsolute(raw)
  \/ \E raw \in Lines : SetRelative(raw)
  \/ \E raw \in Lines : SetPosition(raw)
  \/ \E raw \in Lines : Unsupported(raw)

Spec == Init /\ [][Next]_vars

\* The whole of parse: the lines of a text, then the Group, then the next call
NextOut ==
  \/ Built /\ Parse
  \/ \E sl \in BOOLEAN : Emit(sl)
  \/ \E raw \in Lines : LinearMove(raw)
  \/ \E raw \in Lines : ArcMove(raw)
  \/ \E raw \in Lines : SetAbsolute(raw)
  \/ \E raw \in Lines : SetRelative(raw)
  \/ \E raw \in Lines : SetPosition(raw)
  \/ \E raw \in Lines : Unsupported(raw)

SpecOut == Init /\ [][NextOut]_vars

(***************************************************************************)
(* Properties                                                              *)
(***************************************************************************)
\* A line of this pass has been read: `line` is it, `before` what it found
Read == i > 0 /\ ~Built

\* The line read last was a G0/G1 command
Moved == Read /\ cmd \in {G0, G1}

\* The positioning mode the last line found
WasRelative == Truthy(before.state, "relative")

\* The six coordinates of the segment from the position before the last
\* line to the position after it
Segment ==
  <<before.state.x, before.state.y, before.state.z, state.x, state.y, state.z>>

\* The content a list of the current layer had before the last line
ListBefore(name) ==
  IF Len(layers) = Len(before.layers) /\ currentLayer > 0
    THEN before.layers[currentLayer][name]
    ELSE <<>>

\* The list of the current layer that received the last move's segment
Received(name) ==
  /\ currentLayer > 0
  /\ layers[currentLayer][name] = ListBefore(name) \o Segment
  /\ \A other \in {"vertex", "pathVertex", "supportVertex"} \ {name} :
       layers[currentLayer][other] = ListBefore(other)

\* a > b
Greater(a, b) == ~IsNaN(a) /\ ~IsNaN(b) /\ a[1] > b[1]

Axes == {"x", "y", "z", "e", "f"}

\* C1: after a G0/G1 command every axis absent from the command has the value
\* it had before, and every axis present has the given value (absolute mode)
\* or the previous value plus the given value (relative mode), X being
\* lowered by 22 afterwards under tool 1; the machine state is that target.
C1_AxisTargets ==
  Moved =>
    /\ DOMAIN state = Axes
    /\ \A k \in Axes :
         IF k \in DOMAIN args
           THEN LET plain == IF WasRelative
                               THEN Add(before.state[k], args[k])
                               ELSE args[k]
                IN  state[k] = IF k = "x" /\ tcode = 1 THEN Sub(plain, Num(22)) ELSE plain
           ELSE state[k] = before.state[k]

\* A relative move that adds to a non-zero X and leaves a non-zero Y alone
C1_Witness ==
  /\ Moved
  /\ WasRelative
  /\ DOMAIN args = {"x"}
  /\ before.state.x = Num(3)
  /\ before.state.y = Num(3)
  /\ state.x = Num(4)
  /\ state.y = Num(3)

\* C2: in absolute mode the segment of a G0/G1 move goes to exactly one list
\* of the current layer, chosen by that move alone: E raised and tool 1 ->
\* vertex (extruded), E raised and tool 0 -> supportVertex, E not raised ->
\* pathVertex (travel), whatever the move before was.
C2_OneListPerMove ==
  Moved /\ ~WasRelative =>
    LET raised == Greater(state.e, before.state.e)
    IN  Received(IF raised /\ tcode = 1 THEN "vertex"
                 ELSE IF raised /\ tcode = 0 THEN "supportVertex"
                 ELSE "pathVertex")

\* A travel move into a layer that so far held extruded segments only
C2_Witness ==
  /\ Moved
  /\ ~WasRelative
  /\ ~Greater(state.e, before.state.e)
  /\ Len(layers) = Len(before.layers)
  /\ currentLayer > 0
  /\ before.layers[currentLayer].pathVertex = <<>>
  /\ before.layers[currentLayer].vertex # <<>>
  /\ layers[currentLayer].pathVertex = Segment

\* The extrusion delta of the last move as the specification defines it:
\* target E minus previous E in absolute mode, the raw E parameter in
\* relative mode
ExtrusionDelta ==
  IF WasRelative
    THEN IF "e" \in DOMAIN args THEN args.e ELSE Num(0)
    ELSE Sub(state.e, before.state.e)

\* The value the code compares with zero for the last move (line 164)
ComputedDelta == delta(before.state, before.state.e, state.e)

\* The last line found no layer, or a current layer whose Z is not the
\* move's target Z
AtNewZ ==
  \/ before.currentLayer = 0
  \/ NotEq(state.z, before.layers[before.currentLayer].z)

\* The last line appended one layer at the target Z, holding the segment
\* and nothing else, and left the earlier layers as they were
StartedLayer ==
  /\ Len(layers) = Len(before.layers) + 1
  /\ currentLayer = Len(layers)
  /\ SubSeq(layers, 1, Len(before.layers)) = before.layers
  /\ layers[currentLayer].z = state.z
  /\ \E name \in {"vertex", "supportVertex"} : Received(name)

\* C3: a G0/G1 move with positive extrusion delta that finds no layer, or a
\* current layer at another Z than its target Z, adds exactly one layer, at
\* the target Z, and its segment is stored there and not in an older layer.
C3_ExtrusionAtNewZStartsLayer ==
  Moved /\ Positive(ExtrusionDelta) /\ AtNewZ => StartedLayer

\* The same rule for the delta the code computes
C3_ComputedDeltaStartsLayer ==
  Moved /\ Positive(ComputedDelta) /\ AtNewZ => StartedLayer

\* C4 as claimed: a G0/G1 move with positive extrusion delta whose target Z
\* is the machine's Z before the move leaves the number of layers unchanged.
C4_UnchangedMachineZ ==
  Moved /\ Positive(ExtrusionDelta) /\ ~NotEq(state.z, before.state.z) =>
    Len(layers) = Len(before.layers)

\* C4 amended: a G0/G1 move with positive extrusion delta whose target Z is
\* the Z of the current layer (a layer exists) leaves the number of layers
\* unchanged, and its segment goes to that layer.
C4_UnchangedLayerZ ==
  Moved /\ Positive(ExtrusionDelta) /\ ~AtNewZ =>
    /\ Len(layers) = Len(before.layers)
    /\ currentLayer = before.currentLayer
    /\ \E name \in {"vertex", "supportVertex", "pathVertex"} : Received(name)

\* A second extruding move at the Z of the layer the first one started
C4_Witness ==
  /\ Moved
  /\ Positive(ExtrusionDelta)
  /\ ~AtNewZ
  /\ state.z = Num(1)
  /\ Len(layers) = 1
  /\ Len(layers[1].supportVertex) = 12

\* C5: a G0/G1 move leaves the positioning mode as it found it (relative
\* after G91 until G90, absolute after G90 until G91).
C5_MoveKeepsMode ==
  Moved => (Truthy(state, "relative") <=> WasRelative)

\* C6: in relative mode a G0/G1 move is recorded as extruded or support
\* exactly when its E parameter is present and positive, and as travel
\* otherwise.
C6_RelativeDeltaIsRawE ==
  Moved /\ WasRelative =>
    IF "e" \in DOMAIN args /\ Positive(args.e)
      THEN Received("vertex") \/ Received("supportVertex")
      ELSE Received("pathVertex")

\* The target the last move would have had under the other tool
OtherToolTarget == MoveTarget(before.state, args, 1 - tcode)

Tool0Target == IF tcode = 0 THEN state ELSE OtherToolTarget

Tool1Target == IF tcode = 1 THEN state ELSE OtherToolTarget

\* C7: for a G0/G1 command in either mode, the target X under tool 1 is the
\* target X under tool 0 minus 22 when X is present and the current X under
\* both tools when X is absent; the targets of Y, Z, E, F are the same under
\* both tools.
C7_ToolOffsetOnX ==
  Moved =>
    /\ IF "x" \in DOMAIN args
         THEN Tool1Target.x = Sub(Tool0Target.x, Num(22))
         ELSE Tool0Target.x = before.state.x /\ Tool1Target.x = before.state.x
    /\ \A k \in {"y", "z", "e", "f"} : Tool1Target[k] = Tool0Target[k]

\* A relative move with X under tool 1: 3 + 1 - 22
C7_Witness ==
  /\ Moved
  /\ WasRelative
  /\ tcode = 1
  /\ "x" \in DOMAIN args
  /\ before.state.x = Num(3)
  /\ state.x = Num(-18)
  /\ Tool0Target.x = Num(4)

\* The last line has a tool marker
HasMarker ==
  \/ includes(StripComment(line), <<"T", "0">>)
  \/ includes(StripComment(line), <<"T", "1">>)

\* C8: a G92 command leaves every layer and list as it was, gives each of
\* x, y, z, e present in the command the given value (no offset, no adding),
\* and leaves the absent ones, the feed rate, the mode flags and the tool
\* as they were.
C8_SetPositionFrame ==
  Read /\ cmd = G92 =>
    /\ layers = before.layers
    /\ currentLayer = before.currentLayer
    /\ DOMAIN state = DOMAIN before.state
    /\ \A k \in {"x", "y", "z", "e"} :
         state[k] = IF k \in DOMAIN args THEN args[k] ELSE before.state[k]
    /\ \A k \in DOMAIN state \ {"x", "y", "z", "e"} : state[k] = before.state[k]
    /\ ~HasMarker => tcode = before.tcode

\* G92 with X, Y, Z and F under tool 1 in relative mode, a layer recorded
C8_Witness ==
  /\ Read
  /\ cmd = G92
  /\ DOMAIN args = {"x", "y", "z", "f"}
  /\ tcode = 1
  /\ WasRelative
  /\ layers # <<>>
  /\ state.x = Num(3) /\ before.state.x # Num(3)
  /\ state.f # args.f

\* C9: a line whose command code is none of G0, G1, G90, G91, G92 leaves
\* the layers, their lists and the whole machine state (position, E, feed
\* rate, mode) as they were.
C9_OtherCodesChangeNothing ==
  Read /\ cmd \notin {G0, G1, G90, G91, G92} =>
    /\ layers = before.layers
    /\ currentLayer = before.currentLayer
    /\ state = before.state

\* An arc with parameters read in relative mode after a move
C9_Witness ==
  /\ Read
  /\ cmd = G2
  /\ DOMAIN args = {"x", "e"}
  /\ WasRelative
  /\ layers # <<>>
  /\ state.x # Num(0)

\* C10: the active tool after a line is 0 when the line contains T0, 1 when
\* it contains T1 and not T0, and otherwise the tool the line found; a
\* G0/G1 line without marker read under tool 1 is interpreted with tool 1
\* (X lowered by 22, extrusion recorded as extruded, not as support).
C10_ToolPersists ==
  /\ Read =>
       tcode = IF includes(StripComment(line), <<"T", "0">>) THEN 0
               ELSE IF includes(StripComment(line), <<"T", "1">>) THEN 1
               ELSE before.tcode
  /\ ~Read => tcode = before.tcode
  /\ Moved /\ ~HasMarker /\ before.tcode = 1 =>
       /\ "x" \in DOMAIN args =>
            state.x = Sub(IF WasRelative THEN Add(before.state.x, args.x)
                          ELSE args.x, Num(22))
       /\ layers[currentLayer].supportVertex = ListBefore("supportVertex")

\* Tool 1 selected at the first line still applies at the fourth, after a
\* set-position and a mode change
C10_Witness ==
  /\ Moved
  /\ i = 4
  /\ ~HasMarker
  /\ before.tcode = 1
  /\ WasRelative
  /\ before.state.x = Num(3)
  /\ state.x = Num(-18)
  /\ layers[currentLayer].vertex # <<>>

\* C11: a text without tool marker is interpreted with tool 0 from its first
\* line, whatever was parsed before: a first line that is a G0/G1 command
\* without marker takes its X as given (the pass starts in absolute mode)
\* and records nothing in the extruded list.
C11_FreshPassUsesTool0 ==
  Moved /\ i = 1 /\ ~HasMarker =>
    /\ tcode = 0
    /\ "x" \in DOMAIN args => state.x = args.x
    /\ layers[1].vertex = <<>>

\* The number of values the layers before layer k hold in the list name
RECURSIVE Offset(_, _)
Offset(k, name) ==
  IF k = 1 THEN 0 ELSE Offset(k - 1, name) + Len(layers[k - 1][name])

\* The three categories: position among the children, list, material
Categories ==
  { <<1, "vertex", "extruded">>,
    <<2, "pathVertex", "path">>,
    <<3, "supportVertex", "support">> }

\* C12: with splitLayer false the Group holds three combined lists, and
\* each is the concatenation in layer order of the per-layer lists of its
\* category: value j of layer k's list is value Offset(k) + j of the
\* combined list and the combined list holds nothing else; with splitLayer
\* true, the value the constructor sets, the Group holds each layer's
\* extruded, travel and support list, layer by layer, as they are.
C12_FlattenIsConcatenation ==
  /\ ~Built => splitLayer
  /\ Built /\ ~splitLayer =>
       /\ Len(object.children) = 3
       /\ \A c \in Categories :
            LET combined == object.children[c[1]].position
            IN  /\ object.children[c[1]].material = c[3]
                /\ Len(combined) = Offset(Len(layers) + 1, c[2])
                /\ \A k \in 1..Len(layers) :
                     \A j \in 1..Len(layers[k][c[2]]) :
                       combined[Offset(k, c[2]) + j] = layers[k][c[2]][j]
  /\ Built /\ splitLayer =>
       /\ Len(object.children) = 3 * Len(layers)
       /\ \A k \in 1..Len(layers) :
            \A c \in Categories :
              LET child == object.children[3 * (k - 1) + c[1]]
              IN  /\ child.material = c[3]
                  /\ child.position = layers[k][c[2]]
                  /\ child.name = <<"layer", k - 1>>

\* A flattened result of two layers that each hold a support segment and a
\* travel segment
C12_Witness ==
  /\ Built
  /\ ~splitLayer
  /\ Len(layers) = 2
  /\ \A k \in 1..2 :
       /\ Len(layers[k].supportVertex) = 6
       /\ Len(layers[k].pathVertex) = 6
  /\ layers[1].supportVertex # layers[2].supportVertex
  /\ Len(object.children[3].position) = 12

\* The axes of the last line whose token has no number after its letter
MalformedAxes ==
  LET words == Tail(split(StripComment(line)))
      number(s) == \/ s # <<>> /\ IsDigit(s[1])
                   \/ Len(s) > 1 /\ s[1] = "-" /\ IsDigit(s[2])
  IN  { ToLowerChar(words[n][1]) :
          n \in { m \in 1..Len(words) : words[m] # <<>> /\ ~number(Tail(words[m])) } }

\* The value the last G0/G1 line gives axis k from the arguments as read
Usual(k) ==
  IF k \in DOMAIN args
    THEN LET plain == IF WasRelative THEN Add(before.state[k], args[k]) ELSE args[k]
         IN  IF k = "x" /\ tcode = 1 THEN Sub(plain, Num(22)) ELSE plain
    ELSE before.state[k]

\* C13: a G0/G1 line with a parameter that is no number still emits exactly
\* one segment, its malformed axes become NaN and its other axes take the
\* value they would take anyway; a G0/G1 line read after the position has
\* become NaN is processed like any other: one segment, every axis by the
\* usual rule.
C13_MalformedTokenDegrades ==
  /\ Moved /\ MalformedAxes # {} =>
       /\ \E name \in {"vertex", "pathVertex", "supportVertex"} : Received(name)
       /\ \A k \in MalformedAxes : IsNaN(state[k])
       /\ \A k \in Axes \ MalformedAxes :
            /\ state[k] = Usual(k)
            /\ IsNaN(state[k]) => IsNaN(before.state[k])
  /\ Moved /\ (\E k \in Axes : IsNaN(before.state[k])) =>
       /\ \E name \in {"vertex", "pathVertex", "supportVertex"} : Received(name)
       /\ \A k \in Axes : state[k] = Usual(k)

\* The line G1 Xa E3 read at X = 3: X becomes NaN, E becomes 3, and the
\* segment from X = 3 to X = NaN is recorded as support
C13_Witness ==
  /\ Moved
  /\ MalformedAxes = {"x"}
  /\ before.state.x = Num(3)
  /\ IsNaN(state.x)
  /\ state.e = Num(3)
  /\ state.y = Num(3)
  /\ Received("supportVertex")

\* a is an initial part of b
IsPrefix(a, b) == Len(a) <= Len(b) /\ SubSeq(b, 1, Len(a)) = a

Lists == {"vertex", "pathVertex", "supportVertex"}

\* C14: after every line of a pass the layer list extends the layer list
\* before the line: every layer that existed is still at its place with the
\* Z it had, each of its three lists begins with what it held, only the
\* last layer of the list can have received anything, and the current
\* layer is the last one.
C14_LayersAppendOnly ==
  Read =>
    /\ Len(layers) >= Len(before.layers)
    /\ \A k \in 1..Len(before.layers) :
         /\ layers[k].z = before.layers[k].z
         /\ \A name \in Lists : IsPrefix(before.layers[k][name], layers[k][name])
         /\ k < Len(layers) => layers[k] = before.layers[k]
    /\ layers # <<>> => currentLayer = Len(layers)

\* A travel move after a G92 took the machine to Z = 2: the segment joins
\* the second layer, which keeps Z = 1 and the support segment it held, and
\* the first layer is as it was
C14_Witness ==
  /\ Moved
  /\ Len(before.layers) = 2
  /\ Len(layers) = 2
  /\ before.state.z = Num(2)
  /\ layers[2].z = Num(1)
  /\ before.layers[2].pathVertex = <<>>
  /\ layers[2].pathVertex = Segment
  /\ Len(before.layers[2].supportVertex) = 6
  /\ layers[2].supportVertex = before.layers[2].supportVertex
  /\ layers[1] = before.layers[1]

\* The number of coordinates the first k layers of ls hold in their lists
RECURSIVE Count(_, _)
Count(ls, k) ==
  IF k = 0
    THEN 0
    ELSE Count(ls, k - 1) + Len(ls[k].vertex) + Len(ls[k].pathVertex)
           + Len(ls[k].supportVertex)

\* C15: every G0/G1 command adds exactly one segment, from the position
\* before it to its target, to one list of the current layer, also when no
\* axis moves; the layers hold, over all lists, one segment (six
\* coordinates) for each G0/G1 command read so far in the pass.
C15_OneSegmentPerMove ==
  /\ Moved =>
       /\ \E name \in Lists : Received(name)
       /\ Count(layers, Len(layers)) = Count(before.layers, Len(before.layers)) + 6
  /\ Read => Count(layers, Len(layers)) = 6 * history.moves

\* The line G1  F3, which moves no axis, as third move and fourth line of a
\* pass: a segment of length zero, the third segment in the layers
C15_Witness ==
  /\ Moved
  /\ DOMAIN args = {"f"}
  /\ i = 4
  /\ history.moves = 3
  /\ Segment[1] = Segment[4] /\ Segment[2] = Segment[5] /\ Segment[3] = Segment[6]
  /\ Received("pathVertex")
  /\ Count(layers, Len(layers)) = 18

\* The last move was recorded as travel: in a first layer at the Z the
\* machine had before the move when no layer existed, and in the current
\* layer, with no layer added, otherwise
RecordedAsTravel ==
  /\ Received("pathVertex")
  /\ IF before.currentLayer = 0
       THEN Len(layers) = 1 /\ currentLayer = 1 /\ layers[1].z = before.state.z
       ELSE Len(layers) = Len(before.layers) /\ currentLayer = before.currentLayer

\* C16: a G0/G1 move whose extrusion delta is not positive creates a layer
\* only when no layer exists, at the Z of its start position; when a layer
\* exists it creates none, also when it changes Z, and its segment goes to
\* the current layer.
C16_TravelStartsNoLayer ==
  Moved /\ ~Positive(ExtrusionDelta) => RecordedAsTravel

\* The same rule for the delta the code computes
C16_ComputedTravelStartsNoLayer ==
  Moved /\ ~Positive(ComputedDelta) => RecordedAsTravel

\* The end Z of segment n of a list of coordinates
EndZ(list, n) == list[6 * n]

\* C17: in every state, every segment of the extruded list and of the
\* support list of every layer ends at a Z equal to the layer's Z (equal as
\* numbers: the Z values that numeric input gives are never NaN).
C17_ExtrusionEndsAtLayerZ ==
  \A k \in 1..Len(layers) :
    \A name \in {"vertex", "supportVertex"} :
      \A n \in 1..(Len(layers[k][name]) \div 6) :
        ~NotEq(EndZ(layers[k][name], n), layers[k].z)

\* A second layer at Z = 1 whose support segment rises from Z = 0 to Z = 1
\* and whose travel segment, recorded after G92 set Z = 2, ends at Z = 2
C17_Witness ==
  /\ Moved
  /\ Len(layers) = 2
  /\ layers[2].z = Num(1)
  /\ Len(layers[2].supportVertex) = 6
  /\ layers[2].supportVertex[3] = Num(0)
  /\ EndZ(layers[2].supportVertex, 1) = Num(1)
  /\ Len(layers[2].pathVertex) = 6
  /\ EndZ(layers[2].pathVertex, 1) = Num(2)

\* C18: in every state any two layers next to each other in the layer list
\* have different Z values.
C18_NeighbourLayersDifferInZ ==
  \A k \in 1..(Len(layers) - 1) : NotEq(layers[k].z, layers[k + 1].z)

\* Extruding at Z = 0, then at Z = 1, then at Z = 0 again: three layers, the
\* third at the Z of the first
C18_Witness ==
  /\ Moved
  /\ Len(layers) = 3
  /\ layers[1].z = Num(0)
  /\ layers[2].z = Num(1)
  /\ layers[3].z = Num(0)
  /\ layers[3].supportVertex = Segment
  /\ layers[1].supportVertex # <<>>

\* C19: the segment of a G0/G1 command starts where the segment of the
\* G0/G1 command before it ended, or at the origin when it is the first of
\* the pass, unless a G92 with X, Y or Z was read since.
C19_SegmentsChain ==
  Moved /\ ~before.history.shifted =>
    /\ \E name \in Lists : Received(name)
    /\ <<Segment[1], Segment[2], Segment[3]>> = before.history.lastEnd

\* A relative extruding move under tool 1 that starts a second layer, two
\* lines (T1, G91) after a move under tool 0 that ended at X = 1: its
\* segment starts at X = 1
C19_Witness ==
  /\ Moved
  /\ i = 4
  /\ ~before.history.shifted
  /\ before.history.moves = 1
  /\ before.history.lastEnd = <<Num(1), Num(0), Num(0)>>
  /\ WasRelative
  /\ tcode = 1
  /\ Len(before.layers) = 1
  /\ Len(layers) = 2
  /\ layers[2].vertex = <<Num(1), Num(0), Num(0), Num(1), Num(0), Num(1)>>

\* Every layer holds a segment, and a layer the last move added holds that
\* move's segment and nothing else
LayersHoldSegments ==
  /\ \A k \in 1..Len(layers) : \E name \in Lists : layers[k][name] # <<>>
  /\ Moved /\ Len(layers) > Len(before.layers) =>
       /\ Len(layers) = Len(before.layers) + 1
       /\ \E name \in Lists : Received(name)

\* C20: every layer of the layer list holds at least one segment, a move
\* that creates a layer stores its segment there, and when the move is an
\* extruding one (positive extrusion delta) the segment is the first entry
\* of the new layer's extruded or support list.
C20_ExtrudingMoveHeadsItsLayer ==
  /\ LayersHoldSegments
  /\ Moved /\ Len(layers) > Len(before.layers) /\ Positive(ExtrusionDelta) =>
       Received("vertex") \/ Received("supportVertex")

\* The same rule for the delta the code computes
C20_ComputedExtrusionHeadsItsLayer ==
  /\ LayersHoldSegments
  /\ Moved /\ Len(layers) > Len(before.layers) /\ Positive(ComputedDelta) =>
       Received("vertex") \/ Received("supportVertex")

====
